---- MODULE Spec2Model ----
(***************************************************************************)
(* State-machine model of the SAFE-LOOP orchestrator                       *)
(* (apps/api/safeloop_api/main.py): the in-memory session store SESSIONS   *)
(* and the five route handlers create_session, declare_ethics, log_action, *)
(* llm_summary and reset, with the helpers they call.                      *)
(*                                                                         *)
(* Strings that the code transforms (action_type, which is lowercased) are *)
(* sequences of ASCII codes, so that str.lower() is computed and not       *)
(* assumed.  Wall-clock values (now_iso(): updated_at, ts, generated_at)   *)
(* and the free-form "details" mapping are copied by the code and never    *)
(* read back; they are left out of the state.                              *)
(***************************************************************************)
EXTENDS Integers, Sequences, FiniteSets, TLC

\* ---------------------------------------------------------------- bounds
\* number of sessions create_session may add to the store
MaxSessions == 1
\* number of action records held in the store at one time
MaxActions == 3
\* length of one session's action history in the single-session runs
MaxRun == 10
\* number of decisions applied to an impact when only the scores are followed
MaxSteps == 20

\* SESSIONS and response are the store and the answer to the last request.
\* threads holds the requests in flight when handlers interleave (empty when
\* requests are served one at a time); probe holds the argument and result of
\* a helper exercised on its own (idle otherwise).
VARIABLES SESSIONS, response, threads, probe

vars == <<SESSIONS, response, threads, probe>>

\* ---------------------------------------------------------------- inputs
\* "ethical", "Ethical", "exploit", "EXPLOIT", "Skip" as ASCII codes
STR_ethical == <<101, 116, 104, 105, 99, 97, 108>>
STR_Ethical == <<69, 116, 104, 105, 99, 97, 108>>
STR_exploit == <<101, 120, 112, 108, 111, 105, 116>>
STR_EXPLOIT == <<69, 88, 80, 76, 79, 73, 84>>
STR_Skip == <<83, 107, 105, 112>>
STR_skip == <<115, 107, 105, 112>>

ActionTypes == {STR_ethical, STR_Ethical, STR_exploit, STR_EXPLOIT, STR_Skip}

\* session identifiers a request may carry; the last one is never issued
SessionIds == 1..(MaxSessions + 1)

CreateSessionIn ==
    { [user_id |-> "ada@rrc.ca", persona |-> "student", scenario_id |-> "phishing-101"],
      [user_id |-> "bob@rrc.ca", persona |-> "instructor", scenario_id |-> "data-leak"] }

EthicsDeclarationIn ==
    [acknowledge_no_harm : BOOLEAN, acknowledge_no_real_data : BOOLEAN,
     acknowledge_audit_logging : BOOLEAN, acknowledge_professional_codes : BOOLEAN]

\* the declarations the clients of the runs send: everything acknowledged,
\* only the two core items, and each core item withheld in turn
DeclareRequests ==
    {p \in EthicsDeclarationIn :
        p.acknowledge_audit_logging = p.acknowledge_professional_codes
        /\ (p.acknowledge_no_harm \/ p.acknowledge_no_real_data)
        /\ (p.acknowledge_audit_logging =>
                (p.acknowledge_no_harm /\ p.acknowledge_no_real_data))}

ActionLogIn == [action_type : ActionTypes]

\* the recognised decisions only, for the long single-session runs
RunActionLogIn == [action_type : {STR_ethical, STR_exploit, STR_EXPLOIT}]

\* ---------------------------------------------------------------- helpers
\* Python's max and min on two integers
Max(a, b) == IF a >= b THEN a ELSE b

Min(a, b) == IF a <= b THEN a ELSE b

\* dict.get(key, default)
Get(d, key, default) == IF key \in DOMAIN d THEN d[key] ELSE default

\* str.lower() on an ASCII string
LowerChar(c) == IF c >= 65 /\ c <= 90 THEN c + 32 ELSE c

\* action_type used as sent, without lowercasing
Lower_Identity(s) == s

Lower(s) == [i \in 1..Len(s) |-> LowerChar(s[i])]

SCENARIO_IMPACTS ==
    [k \in {STR_ethical, STR_exploit} |->
        IF k = STR_ethical
        THEN [trust |-> 10, streak |-> 1, privacy_exposure |-> -5, community_harm |-> -5]
        ELSE [trust |-> -20, streak |-> -100, privacy_exposure |-> 15, community_harm |-> 10]]

\* hashlib.sha256(...).hexdigest()[:12]: an opaque token derived from the id
hash_user(user_id) == <<"sha256:12", user_id>>

baseline_impact ==
    [privacy_exposure |-> 0, trust |-> 100, regulatory_scrutiny |-> 0,
     business_impact |-> 0, community_harm |-> 0]

\* clamp with the upper limit forgotten
clamp_NoUpperBound(v, lo, hi) == Max(lo, v)

clamp(v, lo, hi) == Max(lo, Min(hi, v))

\* risk_level adding trust instead of the trust deficit
risk_level_TrustAdded(impact) ==
    LET raw == (Get(impact, "privacy_exposure", 0) * 2
                + Get(impact, "community_harm", 0) * 2
                + Get(impact, "trust", 100)) \div 5
        score == clamp(raw, 0, 100)
    IN  IF score >= 60 THEN "High"
        ELSE IF score >= 30 THEN "Medium"
        ELSE "Low"

\* risk_level with "High" only above 60
risk_level_StrictHigh(impact) ==
    LET raw == (Get(impact, "privacy_exposure", 0) * 2
                + Get(impact, "community_harm", 0) * 2
                + (100 - Get(impact, "trust", 100))) \div 5
        score == clamp(raw, 0, 100)
    IN  IF score > 60 THEN "High"
        ELSE IF score >= 30 THEN "Medium"
        ELSE "Low"

\* risk_level with the weights of privacy_exposure and community_harm dropped
risk_level_Unweighted(impact) ==
    LET raw == (Get(impact, "privacy_exposure", 0)
                + Get(impact, "community_harm", 0)
                + (100 - Get(impact, "trust", 100))) \div 5
        score == clamp(raw, 0, 100)
    IN  IF score >= 60 THEN "High"
        ELSE IF score >= 30 THEN "Medium"
        ELSE "Low"

risk_level(impact) ==
    LET raw == (Get(impact, "privacy_exposure", 0) * 2
                + Get(impact, "community_harm", 0) * 2
                + (100 - Get(impact, "trust", 100))) \div 5
        score == clamp(raw, 0, 100)
    IN  IF score >= 60 THEN "High"
        ELSE IF score >= 30 THEN "Medium"
        ELSE "Low"

\* the first three records instead of the last three
LastThree_FirstThree(actions) == SubSeq(actions, 1, Min(3, Len(actions)))

\* actions[-3:]
LastThree(actions) ==
    SubSeq(actions, Max(1, Len(actions) - 2), Len(actions))

\* the summary with the tone turning critical at trust <= 70
fake_llm_summary_ToneAt70(session) ==
    LET impact == session.impact
        actions == Get(session, "actions", <<>>)
        last_actions == [i \in 1..Len(LastThree(actions)) |-> LastThree(actions)[i].action_type]
        trust == Get(impact, "trust", 100)
        level == risk_level(impact)
        negative == trust <= 70
    IN  [headline |-> IF negative THEN "Critical Risk Assessment"
                                  ELSE "Responsible Operation Summary",
         risk_level |-> level,
         observations |-> last_actions,
         human_impact |-> IF negative
                          THEN "Recent decisions have prioritized speed or curiosity over safety."
                          ELSE "You have consistently prioritized stakeholder safety.",
         recommended_next_steps |->
            IF negative
            THEN <<"Review the 'Code of Ethics' immediately.",
                   "Reset the simulation and attempt the 'Ethical' path to observe the difference.",
                   "Document why you chose the exploit path in your reflection log.">>
            ELSE <<"Continue applying the 'Do No Harm' principle.",
                   "Consider how these safeguards might scale to larger systems.",
                   "Prepare your final reflection report.">>]

fake_llm_summary(session) ==
    LET impact == session.impact
        actions == Get(session, "actions", <<>>)
        last_actions == [i \in 1..Len(LastThree(actions)) |-> LastThree(actions)[i].action_type]
        trust == Get(impact, "trust", 100)
        level == risk_level(impact)
        negative == trust < 70
    IN  [headline |-> IF negative THEN "Critical Risk Assessment"
                                  ELSE "Responsible Operation Summary",
         risk_level |-> level,
         observations |-> last_actions,
         human_impact |-> IF negative
                          THEN "Recent decisions have prioritized speed or curiosity over safety."
                          ELSE "You have consistently prioritized stakeholder safety.",
         recommended_next_steps |->
            IF negative
            THEN <<"Review the 'Code of Ethics' immediately.",
                   "Reset the simulation and attempt the 'Ethical' path to observe the difference.",
                   "Document why you chose the exploit path in your reflection log.">>
            ELSE <<"Continue applying the 'Do No Harm' principle.",
                   "Consider how these safeguards might scale to larger systems.",
                   "Prepare your final reflection report.">>]

\* ---------------------------------------------------------------- store
\* the store with session_id bound to session (insert or overwrite)
Put(store, session_id, session) ==
    [s \in (DOMAIN store) \cup {session_id} |->
        IF s = session_id THEN session ELSE store[s]]

\* raise HTTPException(status_code, detail): the store is left as it is
HTTPException(store, op, status_code, detail) ==
    [store |-> store,
     response |-> [op |-> op, code |-> status_code, body |-> [detail |-> detail]]]

Ok(store, op, body) ==
    [store |-> store, response |-> [op |-> op, code |-> 200, body |-> body]]

\* str(uuid4()): an identifier no session of the store has yet
uuid4(store) == Cardinality(DOMAIN store) + 1

TotalActions(store) ==
    LET RECURSIVE Sum(_)
        Sum(S) == IF S = {} THEN 0
                  ELSE LET s == CHOOSE x \in S : TRUE
                       IN  Len(store[s].actions) + Sum(S \ {s})
    IN  Sum(DOMAIN store)

\* ---------------------------------------------------------------- handlers
\* each handler as the code computes it: the store and the response it leaves
create_session_result(store, payload) ==
    LET session_id == uuid4(store)
        safe_user_id == hash_user(payload.user_id)
        session == [user_id |-> safe_user_id,
                    persona |-> payload.persona,
                    scenario_id |-> payload.scenario_id,
                    status |-> "created",
                    ethics_declared |-> FALSE,
                    impact |-> baseline_impact,
                    actions |-> <<>>,
                    reflections |-> <<>>]
    IN  Ok(Put(store, session_id, session), "create_session",
           [session_id |-> session_id, status |-> "created"])

\* declare_ethics demanding all four acknowledgments
declare_ethics_result_AllFour(store, session_id, payload) ==
    IF session_id \notin DOMAIN store
    THEN HTTPException(store, "declare_ethics", 404, "Session not found")
    ELSE IF ~(payload.acknowledge_no_harm /\ payload.acknowledge_no_real_data
              /\ payload.acknowledge_audit_logging /\ payload.acknowledge_professional_codes)
    THEN HTTPException(store, "declare_ethics", 400, "Core ethics must be acknowledged")
    ELSE Ok(Put(store, session_id,
                [store[session_id] EXCEPT !.ethics_declared = TRUE, !.status = "active"]),
            "declare_ethics", [status |-> "active", ethics_declared |-> TRUE])

\* declare_ethics marking the session active before it validates the payload
declare_ethics_result_SetsFirst(store, session_id, payload) ==
    IF session_id \notin DOMAIN store
    THEN HTTPException(store, "declare_ethics", 404, "Session not found")
    ELSE LET marked == Put(store, session_id, [store[session_id] EXCEPT !.status = "active"])
         IN  IF ~(payload.acknowledge_no_harm /\ payload.acknowledge_no_real_data)
             THEN HTTPException(marked, "declare_ethics", 400, "Core ethics must be acknowledged")
             ELSE Ok(Put(store, session_id,
                         [store[session_id] EXCEPT !.ethics_declared = TRUE, !.status = "active"]),
                     "declare_ethics", [status |-> "active", ethics_declared |-> TRUE])

\* declare_ethics refusing a session that is already active
declare_ethics_result_RejectsActive(store, session_id, payload) ==
    IF session_id \notin DOMAIN store
    THEN HTTPException(store, "declare_ethics", 404, "Session not found")
    ELSE IF ~(payload.acknowledge_no_harm /\ payload.acknowledge_no_real_data)
    THEN HTTPException(store, "declare_ethics", 400, "Core ethics must be acknowledged")
    ELSE IF store[session_id].status = "active"
    THEN HTTPException(store, "declare_ethics", 409, "Ethics already declared")
    ELSE Ok(Put(store, session_id,
                [store[session_id] EXCEPT !.ethics_declared = TRUE, !.status = "active"]),
            "declare_ethics", [status |-> "active", ethics_declared |-> TRUE])

\* declare_ethics validating the payload before it looks the session up
declare_ethics_result_ValidatesFirst(store, session_id, payload) ==
    IF ~(payload.acknowledge_no_harm /\ payload.acknowledge_no_real_data)
    THEN HTTPException(store, "declare_ethics", 400, "Core ethics must be acknowledged")
    ELSE IF session_id \notin DOMAIN store
    THEN HTTPException(store, "declare_ethics", 404, "Session not found")
    ELSE Ok(Put(store, session_id,
                [store[session_id] EXCEPT !.ethics_declared = TRUE, !.status = "active"]),
            "declare_ethics", [status |-> "active", ethics_declared |-> TRUE])

declare_ethics_result(store, session_id, payload) ==
    IF session_id \notin DOMAIN store
    THEN HTTPException(store, "declare_ethics", 404, "Session not found")
    ELSE IF ~(payload.acknowledge_no_harm /\ payload.acknowledge_no_real_data)
    THEN HTTPException(store, "declare_ethics", 400, "Core ethics must be acknowledged")
    ELSE LET session == store[session_id]
             s1 == [session EXCEPT !.ethics_declared = TRUE]
             s2 == [s1 EXCEPT !.status = "active"]
         IN  Ok(Put(store, session_id, s2), "declare_ethics",
                [status |-> "active", ethics_declared |-> TRUE])

\* an unrecognised decision falling back to the "exploit" deltas
ApplyDeltas_UnknownAsExploit(impact, decision_type) ==
    LET deltas == Get(SCENARIO_IMPACTS, decision_type, SCENARIO_IMPACTS[STR_exploit])
        i1 == [impact EXCEPT !.trust = clamp(impact.trust + Get(deltas, "trust", 0), 0, 100)]
        i2 == [i1 EXCEPT !.privacy_exposure =
                   clamp(i1.privacy_exposure + Get(deltas, "privacy_exposure", 0), 0, 100)]
    IN  [i2 EXCEPT !.community_harm =
             clamp(i2.community_harm + Get(deltas, "community_harm", 0), 0, 100)]

\* every key of the deltas table written into the impact, "streak" included
ApplyDeltas_AllKeys(impact, decision_type) ==
    LET deltas == Get(SCENARIO_IMPACTS, decision_type, [trust |-> 0])
    IN  [k \in (DOMAIN impact) \cup (DOMAIN deltas) |->
            IF k \in DOMAIN deltas
            THEN clamp(Get(impact, k, 0) + deltas[k], 0, 100)
            ELSE impact[k]]

\* the three in-place score updates of log_action, in the order of the code
ApplyDeltas(impact, decision_type) ==
    LET deltas == Get(SCENARIO_IMPACTS, decision_type, [trust |-> 0])
        i1 == [impact EXCEPT !.trust = clamp(impact.trust + Get(deltas, "trust", 0), 0, 100)]
        i2 == [i1 EXCEPT !.privacy_exposure =
                   clamp(i1.privacy_exposure + Get(deltas, "privacy_exposure", 0), 0, 100)]
    IN  [i2 EXCEPT !.community_harm =
             clamp(i2.community_harm + Get(deltas, "community_harm", 0), 0, 100)]

\* log_action keeping the live impact in its records instead of a copy: every
\* record of the session shows the latest scores
log_action_result_LiveReference(store, session_id, payload) ==
    IF session_id \notin DOMAIN store
    THEN HTTPException(store, "log_action", 404, "Session not found")
    ELSE IF ~store[session_id].ethics_declared
    THEN HTTPException(store, "log_action", 403, "Ethics declaration required")
    ELSE LET session == store[session_id]
             decision_type == Lower(payload.action_type)
             impact == ApplyDeltas(session.impact, decision_type)
             record == [action_type |-> decision_type, impact_after |-> impact]
             appended == Append(session.actions, record)
             aliased == [i \in 1..Len(appended) |-> [appended[i] EXCEPT !.impact_after = impact]]
             s1 == [session EXCEPT !.impact = impact, !.actions = aliased]
         IN  Ok(Put(store, session_id, s1), "log_action", [ok |-> TRUE, impact |-> impact])

\* log_action gated on status = "active" instead of ethics_declared
log_action_result_GateOnStatus(store, session_id, payload) ==
    IF session_id \notin DOMAIN store
    THEN HTTPException(store, "log_action", 404, "Session not found")
    ELSE IF store[session_id].status # "active"
    THEN HTTPException(store, "log_action", 403, "Ethics declaration required")
    ELSE LET session == store[session_id]
             decision_type == Lower(payload.action_type)
             impact == ApplyDeltas(session.impact, decision_type)
             record == [action_type |-> decision_type, impact_after |-> impact]
             s1 == [session EXCEPT !.impact = impact, !.actions = Append(session.actions, record)]
         IN  Ok(Put(store, session_id, s1), "log_action", [ok |-> TRUE, impact |-> impact])

\* log_action without the ethics_declared check
log_action_result_NoGate(store, session_id, payload) ==
    IF session_id \notin DOMAIN store
    THEN HTTPException(store, "log_action", 404, "Session not found")
    ELSE LET session == store[session_id]
             decision_type == Lower(payload.action_type)
             impact == ApplyDeltas(session.impact, decision_type)
             record == [action_type |-> decision_type, impact_after |-> impact]
             s1 == [session EXCEPT !.impact = impact, !.actions = Append(session.actions, record)]
         IN  Ok(Put(store, session_id, s1), "log_action", [ok |-> TRUE, impact |-> impact])

log_action_result(store, session_id, payload) ==
    IF session_id \notin DOMAIN store
    THEN HTTPException(store, "log_action", 404, "Session not found")
    ELSE IF ~store[session_id].ethics_declared
    THEN HTTPException(store, "log_action", 403, "Ethics declaration required")
    ELSE LET session == store[session_id]
             decision_type == Lower(payload.action_type)
             impact == ApplyDeltas(session.impact, decision_type)
             record == [action_type |-> decision_type, impact_after |-> impact]
             s1 == [session EXCEPT !.impact = impact, !.actions = Append(session.actions, record)]
         IN  Ok(Put(store, session_id, s1), "log_action", [ok |-> TRUE, impact |-> impact])

\* llm_summary trimming the stored history to the records it reports
llm_summary_result_Truncates(store, session_id) ==
    IF session_id \notin DOMAIN store
    THEN HTTPException(store, "llm_summary", 404, "Session not found")
    ELSE Ok(Put(store, session_id,
                [store[session_id] EXCEPT !.actions = LastThree(store[session_id].actions)]),
            "llm_summary", fake_llm_summary(store[session_id]))

llm_summary_result(store, session_id) ==
    IF session_id \notin DOMAIN store
    THEN HTTPException(store, "llm_summary", 404, "Session not found")
    ELSE Ok(store, "llm_summary", fake_llm_summary(store[session_id]))

\* reset storing the status it reports
reset_result_StoresReset(store, session_id) ==
    IF session_id \notin DOMAIN store
    THEN HTTPException(store, "reset", 404, "Session not found")
    ELSE LET session == store[session_id]
             s1 == [session EXCEPT !.status = "reset",
                                   !.actions = <<>>,
                                   !.reflections = <<>>,
                                   !.impact = baseline_impact]
         IN  Ok(Put(store, session_id, s1), "reset", [ok |-> TRUE, status |-> "reset"])

\* reset that also clears the ethics declaration
reset_result_ClearsEthics(store, session_id) ==
    IF session_id \notin DOMAIN store
    THEN HTTPException(store, "reset", 404, "Session not found")
    ELSE LET session == store[session_id]
             s1 == [session EXCEPT !.status = "created",
                                   !.ethics_declared = FALSE,
                                   !.actions = <<>>,
                                   !.reflections = <<>>,
                                   !.impact = baseline_impact]
         IN  Ok(Put(store, session_id, s1), "reset", [ok |-> TRUE, status |-> "reset"])

reset_result(store, session_id) ==
    IF session_id \notin DOMAIN store
    THEN HTTPException(store, "reset", 404, "Session not found")
    ELSE LET session == store[session_id]
             s1 == [session EXCEPT !.status = "created",
                                   !.actions = <<>>,
                                   !.reflections = <<>>,
                                   !.impact = baseline_impact]
         IN  Ok(Put(store, session_id, s1), "reset", [ok |-> TRUE, status |-> "reset"])

\* ---------------------------------------------------------------- actions
Serve(r) ==
    /\ SESSIONS' = r.store
    /\ response' = r.response
    /\ UNCHANGED <<threads, probe>>

create_session(payload) ==
    Serve(create_session_result(SESSIONS, payload))

declare_ethics(session_id, payload) ==
    Serve(declare_ethics_result(SESSIONS, session_id, payload))

log_action(session_id, payload) ==
    Serve(log_action_result(SESSIONS, session_id, payload))

llm_summary(session_id) ==
    Serve(llm_summary_result(SESSIONS, session_id))

reset(session_id) ==
    Serve(reset_result(SESSIONS, session_id))

NoResponse == [op |-> "none", code |-> 0, body |-> [detail |-> ""]]

NoProbe == [call |-> "none", arg |-> 0, result |-> "idle"]

Init ==
    /\ SESSIONS = <<>>
    /\ response = NoResponse
    /\ threads = <<>>
    /\ probe = NoProbe

\* every request against a store of up to MaxSessions sessions
Next ==
    \/ \E payload \in CreateSessionIn :
           /\ Cardinality(DOMAIN SESSIONS) < MaxSessions
           /\ create_session(payload)
    \/ \E session_id \in SessionIds, payload \in DeclareRequests :
           declare_ethics(session_id, payload)
    \/ \E session_id \in SessionIds, payload \in ActionLogIn :
           /\ log_action(session_id, payload)
           /\ TotalActions(SESSIONS') <= MaxActions
    \/ \E session_id \in SessionIds : llm_summary(session_id)
    \/ \E session_id \in SessionIds : reset(session_id)

Spec == Init /\ [][Next]_vars

\* one session driven through long runs of recognised decisions
NextRun ==
    \/ \E payload \in CreateSessionIn :
           /\ DOMAIN SESSIONS = {}
           /\ create_session(payload)
    \/ \E session_id \in 1..2, payload \in DeclareRequests :
           declare_ethics(session_id, payload)
    \/ \E session_id \in 1..2, payload \in RunActionLogIn :
           /\ log_action(session_id, payload)
           /\ TotalActions(SESSIONS') <= MaxRun
    \/ \E session_id \in 1..2 : llm_summary(session_id)
    \/ \E session_id \in 1..2 : reset(session_id)

SpecRun == Init /\ [][NextRun]_vars

\* ---------------------------------------------------------------- risk_level alone
\* multiples of 5 in [0,100]
Fives == {5 * k : k \in 0..20}

\* impacts risk_level is exercised on: every trust value, privacy_exposure and
\* community_harm on the multiples of 5, the two unused scores at both ends
RiskInputs ==
    [privacy_exposure : Fives, trust : 0..100, regulatory_scrutiny : {0, 100},
     business_impact : {0, 100}, community_harm : Fives]

InitRisk ==
    /\ SESSIONS = <<>>
    /\ response = NoResponse
    /\ threads = <<>>
    /\ probe \in [call : {"risk_level"}, arg : RiskInputs, result : {"pending"}]

Classify ==
    /\ probe.call = "risk_level"
    /\ probe.result = "pending"
    /\ probe' = [probe EXCEPT !.result = risk_level(probe.arg)]
    /\ UNCHANGED <<SESSIONS, response, threads>>

NextRisk == Classify

SpecRisk == InitRisk /\ [][NextRisk]_vars

\* ---------------------------------------------------------------- scores alone
\* log_action reads nothing of the session but its impact, so the scores a
\* session can reach are those ApplyDeltas reaches from the baseline.  This
\* specification follows the scores only, with the number of decisions.
InitImpact ==
    /\ SESSIONS = <<>>
    /\ response = NoResponse
    /\ threads = <<>>
    /\ probe = [call |-> "ApplyDeltas", arg |-> 0, result |-> baseline_impact]

Decide(payload) ==
    /\ probe.call = "ApplyDeltas"
    /\ probe.arg < MaxSteps
    /\ probe' = [probe EXCEPT !.arg = @ + 1,
                              !.result = ApplyDeltas(@, Lower(payload.action_type))]
    /\ UNCHANGED <<SESSIONS, response, threads>>

NextImpact == \E payload \in RunActionLogIn : Decide(payload)

SpecImpact == InitImpact /\ [][NextImpact]_vars

\* ---------------------------------------------------------------- interleaved handlers
\* The routes are plain (non-async) functions, which the framework runs on
\* worker threads; nothing in main.py takes a lock.  Here two log_action
\* requests and one llm_summary request on the same session run together and
\* may switch between statements.  Each action below is one statement of the
\* handler (statements that touch only locals are taken with the next one).
Writers == {"w1", "w2"}

Reader == "r"

\* the session the interleaved requests address
ConcSession == 1

\* the store after create_session and an accepted declare_ethics
ConcStore ==
    LET created == create_session_result(<<>>,
                       [user_id |-> "ada@rrc.ca", persona |-> "student",
                        scenario_id |-> "phishing-101"]).store
    IN  declare_ethics_result(created, ConcSession,
            [acknowledge_no_harm |-> TRUE, acknowledge_no_real_data |-> TRUE,
             acknowledge_audit_logging |-> TRUE,
             acknowledge_professional_codes |-> TRUE]).store

\* the three scores log_action writes and risk_level reads
Scores(impact) ==
    [trust |-> impact.trust, privacy_exposure |-> impact.privacy_exposure,
     community_harm |-> impact.community_harm]

\* a request in flight: its arguments, its position and its locals
Request(op, action_type) ==
    [op |-> op, session_id |-> ConcSession, action_type |-> action_type,
     pc |-> "start", decision_type |-> <<>>, deltas |-> [trust |-> 0],
     last_actions |-> <<>>, trust |-> 100, level |-> "Low",
     seen |-> Scores(baseline_impact), recorded |-> baseline_impact]

InitConc ==
    /\ SESSIONS = ConcStore
    /\ response = NoResponse
    /\ probe = NoProbe
    /\ \E a1 \in RunActionLogIn, a2 \in RunActionLogIn :
           threads = [t \in Writers \cup {Reader} |->
                         IF t = "w1" THEN Request("log_action", a1.action_type)
                         ELSE IF t = "w2" THEN Request("log_action", a2.action_type)
                         ELSE Request("llm_summary", <<>>)]

\* one statement impact[field] = clamp(impact[field] + deltas.get(field, 0))
UpdateScore(store, session_id, deltas, field) ==
    [store EXCEPT ![session_id].impact[field] =
        clamp(store[session_id].impact[field] + Get(deltas, field, 0), 0, 100)]

\* log_action lines 214-224: lookup, gate, reference to the impact, deltas
Log_Start(t) ==
    /\ threads[t].op = "log_action" /\ threads[t].pc = "start"
    /\ threads[t].session_id \in DOMAIN SESSIONS
    /\ SESSIONS[threads[t].session_id].ethics_declared
    /\ threads' = [threads EXCEPT
                      ![t].decision_type = Lower(threads[t].action_type),
                      ![t].deltas = Get(SCENARIO_IMPACTS, Lower(threads[t].action_type),
                                        [trust |-> 0]),
                      ![t].pc = "trust"]
    /\ UNCHANGED <<SESSIONS, response, probe>>

\* line 227
Log_Trust(t) ==
    /\ threads[t].op = "log_action" /\ threads[t].pc = "trust"
    /\ SESSIONS' = UpdateScore(SESSIONS, threads[t].session_id, threads[t].deltas, "trust")
    /\ threads' = [threads EXCEPT ![t].pc = "privacy_exposure"]
    /\ UNCHANGED <<response, probe>>

\* line 228
Log_Privacy(t) ==
    /\ threads[t].op = "log_action" /\ threads[t].pc = "privacy_exposure"
    /\ SESSIONS' = UpdateScore(SESSIONS, threads[t].session_id, threads[t].deltas,
                               "privacy_exposure")
    /\ threads' = [threads EXCEPT ![t].pc = "community_harm"]
    /\ UNCHANGED <<response, probe>>

\* line 229
Log_Harm(t) ==
    /\ threads[t].op = "log_action" /\ threads[t].pc = "community_harm"
    /\ SESSIONS' = UpdateScore(SESSIONS, threads[t].session_id, threads[t].deltas,
                               "community_harm")
    /\ threads' = [threads EXCEPT ![t].pc = "append"]
    /\ UNCHANGED <<response, probe>>

\* lines 232-237: the record takes dict(impact), a copy of the scores as they are now
Log_Append(t) ==
    /\ threads[t].op = "log_action" /\ threads[t].pc = "append"
    /\ LET sid == threads[t].session_id
           copy == SESSIONS[sid].impact
       IN  /\ SESSIONS' = [SESSIONS EXCEPT ![sid].actions =
                              Append(@, [action_type |-> threads[t].decision_type,
                                         impact_after |-> copy])]
           /\ threads' = [threads EXCEPT ![t].recorded = copy, ![t].pc = "return"]
    /\ UNCHANGED <<response, probe>>

\* line 239: the answer carries the live impact
Log_Return(t) ==
    /\ threads[t].op = "log_action" /\ threads[t].pc = "return"
    /\ response' = [op |-> "log_action", code |-> 200,
                    body |-> [ok |-> TRUE, impact |-> SESSIONS[threads[t].session_id].impact]]
    /\ threads' = [threads EXCEPT ![t].pc = "done"]
    /\ UNCHANGED <<SESSIONS, probe>>

\* llm_summary lines 244-246 and fake_llm_summary lines 121-125
Sum_Start(t) ==
    /\ threads[t].op = "llm_summary" /\ threads[t].pc = "start"
    /\ threads[t].session_id \in DOMAIN SESSIONS
    /\ LET actions == Get(SESSIONS[threads[t].session_id], "actions", <<>>)
       IN  threads' = [threads EXCEPT
                          ![t].last_actions =
                              [i \in 1..Len(LastThree(actions)) |->
                                  LastThree(actions)[i].action_type],
                          ![t].pc = "trust"]
    /\ UNCHANGED <<SESSIONS, response, probe>>

\* line 127
Sum_Trust(t) ==
    /\ threads[t].op = "llm_summary" /\ threads[t].pc = "trust"
    /\ threads' = [threads EXCEPT
                      ![t].trust = Get(SESSIONS[threads[t].session_id].impact, "trust", 100),
                      ![t].pc = "risk_level"]
    /\ UNCHANGED <<SESSIONS, response, probe>>

\* line 128: risk_level reads the three scores of the live impact
Sum_Risk(t) ==
    /\ threads[t].op = "llm_summary" /\ threads[t].pc = "risk_level"
    /\ threads' = [threads EXCEPT
                      ![t].seen = Scores(SESSIONS[threads[t].session_id].impact),
                      ![t].level = risk_level(SESSIONS[threads[t].session_id].impact),
                      ![t].pc = "return"]
    /\ UNCHANGED <<SESSIONS, response, probe>>

\* lines 131-163: the summary is built from the locals
Sum_Return(t) ==
    /\ threads[t].op = "llm_summary" /\ threads[t].pc = "return"
    /\ LET summary == fake_llm_summary(
                          [impact |-> [baseline_impact EXCEPT !.trust = threads[t].trust],
                           actions |-> <<>>])
       IN  response' = [op |-> "llm_summary", code |-> 200,
                        body |-> [summary EXCEPT !.risk_level = threads[t].level,
                                                 !.observations = threads[t].last_actions]]
    /\ threads' = [threads EXCEPT ![t].pc = "done"]
    /\ UNCHANGED <<SESSIONS, probe>>

NextConc ==
    \/ \E t \in Writers : Log_Start(t)
    \/ \E t \in Writers : Log_Trust(t)
    \/ \E t \in Writers : Log_Privacy(t)
    \/ \E t \in Writers : Log_Harm(t)
    \/ \E t \in Writers : Log_Append(t)
    \/ \E t \in Writers : Log_Return(t)
    \/ Sum_Start(Reader)
    \/ Sum_Trust(Reader)
    \/ Sum_Risk(Reader)
    \/ Sum_Return(Reader)

SpecConc == InitConc /\ [][NextConc]_vars

\* ---------------------------------------------------------------- properties
ScoreFields ==
    {"privacy_exposure", "trust", "regulatory_scrutiny", "business_impact", "community_harm"}

\* v saturated to [0,100], written out independently of clamp
Saturate(v) == IF v < 0 THEN 0 ELSE IF v > 100 THEN 100 ELSE v

IsEthical(action_type) == action_type \in {STR_ethical, STR_Ethical}

IsExploit(action_type) == action_type \in {STR_exploit, STR_EXPLOIT}

InRange(impact) == \A f \in ScoreFields : impact[f] \in 0..100

\* C1: in every reachable state every one of the five scores of every session
\* is an integer in [0,100], and so is every score of every impact_after
\* snapshot kept in the action history.
C1_ScoresInRange ==
    \A sid \in DOMAIN SESSIONS :
        /\ InRange(SESSIONS[sid].impact)
        /\ \A i \in 1..Len(SESSIONS[sid].actions) :
               InRange(SESSIONS[sid].actions[i].impact_after)

\* a session whose scores were driven into both ends of the range
C1_Witness ==
    \E sid \in DOMAIN SESSIONS :
        /\ SESSIONS[sid].impact.trust = 0
        /\ SESSIONS[sid].impact.privacy_exposure = 100
        /\ Len(SESSIONS[sid].actions) >= 7
        /\ \E i \in 1..Len(SESSIONS[sid].actions) :
               /\ SESSIONS[sid].actions[i].impact_after.trust = 100
               /\ SESSIONS[sid].actions[i].impact_after.privacy_exposure = 0

\* C2: log_action on an existing session whose ethics_declared is false
\* answers 403 for every action_type and leaves the store as it was (no score
\* changes, no record appended).
C2_GateRejects ==
    \A sid \in DOMAIN SESSIONS, p \in ActionLogIn :
        ~SESSIONS[sid].ethics_declared =>
            LET r == log_action_result(SESSIONS, sid, p)
            IN  /\ r.response.code = 403
                /\ r.store = SESSIONS

\* a log_action was just refused on an undeclared session with empty history
C2_Witness ==
    /\ response.op = "log_action"
    /\ response.code = 403
    /\ \E sid \in DOMAIN SESSIONS :
           /\ ~SESSIONS[sid].ethics_declared
           /\ SESSIONS[sid].actions = <<>>
           /\ SESSIONS[sid].impact = baseline_impact

\* C3: reset on an existing session leaves it with baseline scores, an empty
\* action history and an empty reflection list, and keeps user_id, persona,
\* scenario_id and ethics_declared as they were.
C3_ResetRestoresBaseline ==
    \A sid \in DOMAIN SESSIONS :
        LET r == reset_result(SESSIONS, sid)
            before == SESSIONS[sid]
            after == r.store[sid]
        IN  /\ r.response.code = 200
            /\ \A f \in ScoreFields :
                   after.impact[f] = (IF f = "trust" THEN 100 ELSE 0)
            /\ after.actions = <<>>
            /\ after.reflections = <<>>
            /\ after.user_id = before.user_id
            /\ after.persona = before.persona
            /\ after.scenario_id = before.scenario_id
            /\ after.ethics_declared = before.ethics_declared

\* a reset was just served on a session that had declared ethics
C3_Witness ==
    /\ response.op = "reset"
    /\ response.code = 200
    /\ \E sid \in DOMAIN SESSIONS :
           /\ SESSIONS[sid].ethics_declared
           /\ SESSIONS[sid].status = "created"
           /\ SESSIONS[sid].actions = <<>>
           /\ SESSIONS[sid].impact.trust = 100

\* C4: declare_ethics on an existing session succeeds exactly when
\* acknowledge_no_harm and acknowledge_no_real_data are both true, whatever
\* the other two acknowledgments are; on success the session is
\* ethics_declared and active, and impact, actions and reflections are kept.
C4_TwoFlagsGate ==
    \A sid \in DOMAIN SESSIONS, p \in EthicsDeclarationIn :
        \A r \in {declare_ethics_result(SESSIONS, sid, p)} :
            /\ (r.response.code = 200)
                   <=> (p.acknowledge_no_harm /\ p.acknowledge_no_real_data)
            /\ r = declare_ethics_result(SESSIONS, sid,
                       [p EXCEPT !.acknowledge_audit_logging = FALSE,
                                 !.acknowledge_professional_codes = FALSE])
            /\ r.response.code = 200 =>
                   \A after \in {r.store[sid]} :
                       /\ after.ethics_declared
                       /\ after.status = "active"
                       /\ after.impact = SESSIONS[sid].impact
                       /\ after.actions = SESSIONS[sid].actions
                       /\ after.reflections = SESSIONS[sid].reflections

\* a declaration was just accepted
C4_Witness ==
    /\ response.op = "declare_ethics"
    /\ response.code = 200
    /\ response.body = [status |-> "active", ethics_declared |-> TRUE]
    /\ \E sid \in DOMAIN SESSIONS :
           SESSIONS[sid].ethics_declared /\ SESSIONS[sid].status = "active"

\* C5: a declare_ethics refused for a missing core acknowledgment leaves the
\* whole store unchanged; a session still created and undeclared stays so and
\* a log_action after the refusal is still answered 403.
C5_FailedDeclareNoEffect ==
    \A sid \in DOMAIN SESSIONS, p \in EthicsDeclarationIn :
        ~(p.acknowledge_no_harm /\ p.acknowledge_no_real_data) =>
            \A r \in {declare_ethics_result(SESSIONS, sid, p)} :
                /\ r.response.code = 400
                /\ r.store = SESSIONS
                /\ (SESSIONS[sid].status = "created" /\ ~SESSIONS[sid].ethics_declared) =>
                       /\ r.store[sid].status = "created"
                       /\ ~r.store[sid].ethics_declared
                       /\ \A q \in ActionLogIn :
                              log_action_result(r.store, sid, q).response.code = 403

\* a declaration was just refused and the session is still fresh
C5_Witness ==
    /\ response.op = "declare_ethics"
    /\ response.code = 400
    /\ \E sid \in DOMAIN SESSIONS :
           /\ SESSIONS[sid].status = "created"
           /\ ~SESSIONS[sid].ethics_declared

SuccessfulDeclarations ==
    {p \in EthicsDeclarationIn : p.acknowledge_no_harm /\ p.acknowledge_no_real_data}

\* C6: a second successful declare_ethics, on a session already active,
\* succeeds with the same answer and leaves the store exactly as the first
\* successful call left it.
C6_DeclareIdempotent ==
    \A sid \in DOMAIN SESSIONS, p1 \in SuccessfulDeclarations :
        \A r1 \in {declare_ethics_result(SESSIONS, sid, p1)} :
            /\ r1.response.code = 200
            /\ r1.store[sid].status = "active"
            /\ \A p2 \in SuccessfulDeclarations :
                   declare_ethics_result(r1.store, sid, p2) = r1

\* a declaration was just accepted on the only session, which holds actions
\* and so was active already
C6_Witness ==
    /\ response.op = "declare_ethics"
    /\ response.code = 200
    /\ DOMAIN SESSIONS = {1}
    /\ SESSIONS[1].status = "active"
    /\ SESSIONS[1].actions # <<>>

\* C7: declare_ethics, log_action, llm_summary and reset on an identifier that
\* is not in the store answer 404 whatever their payload is, add no session
\* and leave every stored session unchanged.
C7_MissingSessionNotFound ==
    \A sid \in SessionIds \ DOMAIN SESSIONS :
        \A r \in {declare_ethics_result(SESSIONS, sid, p) : p \in EthicsDeclarationIn}
                   \cup {log_action_result(SESSIONS, sid, p) : p \in ActionLogIn}
                   \cup {llm_summary_result(SESSIONS, sid), reset_result(SESSIONS, sid)} :
            /\ r.response.code = 404
            /\ r.store = SESSIONS

\* a request was just answered 404 while the store holds a session with history
C7_Witness ==
    /\ response.code = 404
    /\ response.body = [detail |-> "Session not found"]
    /\ \E sid \in DOMAIN SESSIONS : SESSIONS[sid].actions # <<>>

\* C8: a successful log_action of "ethical" (any letter case) moves trust by
\* +10 and privacy_exposure and community_harm by -5, one of "exploit" moves
\* them by -20, +15 and +10, each saturated to [0,100]; from baseline one
\* "ethical" leaves trust at 100 and privacy_exposure at 0.
C8_RecognisedDeltas ==
    \A sid \in DOMAIN SESSIONS, p \in ActionLogIn :
        SESSIONS[sid].ethics_declared =>
            LET r == log_action_result(SESSIONS, sid, p)
                old == SESSIONS[sid].impact
                new == r.store[sid].impact
            IN  /\ r.response.code = 200
                /\ IsEthical(p.action_type) =>
                       /\ new.trust = Saturate(old.trust + 10)
                       /\ new.privacy_exposure = Saturate(old.privacy_exposure - 5)
                       /\ new.community_harm = Saturate(old.community_harm - 5)
                       /\ old = baseline_impact =>
                              new.trust = 100 /\ new.privacy_exposure = 0
                /\ IsExploit(p.action_type) =>
                       /\ new.trust = Saturate(old.trust - 20)
                       /\ new.privacy_exposure = Saturate(old.privacy_exposure + 15)
                       /\ new.community_harm = Saturate(old.community_harm + 10)

\* an "exploit" was just logged with trust and privacy_exposure saturated,
\* after an earlier "ethical"
C8_Witness ==
    /\ response.op = "log_action"
    /\ response.code = 200
    /\ response.body.impact.trust = 0
    /\ response.body.impact.privacy_exposure = 100
    /\ \E sid \in DOMAIN SESSIONS :
           LET actions == SESSIONS[sid].actions
           IN  /\ actions # <<>>
               /\ actions[Len(actions)].action_type = STR_exploit
               /\ actions[Len(actions)].impact_after = response.body.impact
               /\ \E i \in 1..Len(actions) : actions[i].action_type = STR_ethical

ExploitPrefix(actions, k) ==
    /\ Len(actions) >= k
    /\ \A i \in 1..k : actions[i].action_type = STR_exploit

\* C10: from baseline with ethics declared, five consecutive "exploit" actions
\* take trust through 80, 60, 40, 20 to 0, and the risk level of the impact
\* after the fifth is "High" while after the fourth it is not.
C10_FiveExploits ==
    \A sid \in DOMAIN SESSIONS :
        LET actions == SESSIONS[sid].actions
        IN  /\ \A k \in 1..5 :
                   ExploitPrefix(actions, k) =>
                       /\ actions[k].impact_after.trust = 100 - 20 * k
                       /\ Len(actions) = k =>
                              SESSIONS[sid].impact.trust = 100 - 20 * k
            /\ ExploitPrefix(actions, 4) =>
                   risk_level(actions[4].impact_after) # "High"
            /\ ExploitPrefix(actions, 5) =>
                   risk_level(actions[5].impact_after) = "High"
            /\ (ExploitPrefix(actions, 5) /\ Len(actions) = 5) =>
                   risk_level(SESSIONS[sid].impact) = "High"

\* exactly five "exploit" actions were logged since baseline
C10_Witness ==
    \E sid \in DOMAIN SESSIONS :
        /\ Len(SESSIONS[sid].actions) = 5
        /\ ExploitPrefix(SESSIONS[sid].actions, 5)
        /\ SESSIONS[sid].impact.trust = 0
        /\ response.op = "log_action"

\* the risk score of three scores, written out from the formula
RiskScore(privacy_exposure, community_harm, trust) ==
    (2 * privacy_exposure + 2 * community_harm + (100 - trust)) \div 5

\* C11: for privacy_exposure, community_harm and trust in [0,100] risk_level
\* is "High" iff floor((2*privacy_exposure + 2*community_harm + (100 - trust)) / 5)
\* is at least 60, "Medium" iff it is in [30,59] and "Low" otherwise, and it
\* does not depend on regulatory_scrutiny or business_impact.
C11_RiskThresholds ==
    (probe.call = "risk_level" /\ probe.result # "pending") =>
        LET i == probe.arg
            score == RiskScore(i.privacy_exposure, i.community_harm, i.trust)
        IN  /\ (probe.result = "High") <=> (score >= 60)
            /\ (probe.result = "Medium") <=> (score >= 30 /\ score <= 59)
            /\ (probe.result = "Low") <=> (score < 30)
            /\ probe.result =
                   risk_level([i EXCEPT !.regulatory_scrutiny = 0, !.business_impact = 0])

\* risk_level answered "High" for a score of exactly 60 (302 \div 5) with the unused
\* scores at 100
C11_Witness ==
    /\ probe.call = "risk_level"
    /\ probe.result = "High"
    /\ RiskScore(probe.arg.privacy_exposure, probe.arg.community_harm, probe.arg.trust) = 60
    /\ probe.arg.trust = 68
    /\ probe.arg.regulatory_scrutiny = 100
    /\ probe.arg.business_impact = 100

IsPrefix(a, b) == Len(a) <= Len(b) /\ SubSeq(b, 1, Len(a)) = a

\* C12: between resets the action history only grows at its end: declare_ethics,
\* llm_summary and log_action keep every session's earlier records and their
\* order, a successful log_action appends exactly one record whose
\* impact_after is the session's scores right after it, and whenever a history
\* is non-empty its last record's impact_after equals the current scores.
C12_AppendOnly ==
    \A sid \in DOMAIN SESSIONS :
        LET old == SESSIONS[sid].actions
        IN  /\ old # <<>> => old[Len(old)].impact_after = SESSIONS[sid].impact
            /\ \A p \in ActionLogIn :
                   \A r \in {log_action_result(SESSIONS, sid, p)} :
                       /\ r.response.code # 200 => r.store = SESSIONS
                       /\ r.response.code = 200 =>
                              \A after \in {r.store[sid]} :
                                  /\ IsPrefix(old, after.actions)
                                  /\ Len(after.actions) = Len(old) + 1
                                  /\ after.actions[Len(old) + 1].impact_after = after.impact
                                  /\ after.impact = r.response.body.impact
                                  /\ \A other \in DOMAIN SESSIONS \ {sid} :
                                         r.store[other] = SESSIONS[other]
            /\ \A p \in DeclareRequests :
                   \A r \in {declare_ethics_result(SESSIONS, sid, p)} :
                       \A s \in DOMAIN SESSIONS : r.store[s].actions = SESSIONS[s].actions
            /\ \A r \in {llm_summary_result(SESSIONS, sid)} :
                   \A s \in DOMAIN SESSIONS : r.store[s].actions = SESSIONS[s].actions

\* a third action was just logged and the first record still shows the
\* scores of its own time
C12_Witness ==
    /\ response.op = "log_action"
    /\ response.code = 200
    /\ \E sid \in DOMAIN SESSIONS :
           LET actions == SESSIONS[sid].actions
           IN  /\ Len(actions) = 3
               /\ actions[3].impact_after = SESSIONS[sid].impact
               /\ actions[1].impact_after # SESSIONS[sid].impact
               /\ actions[1].impact_after # actions[2].impact_after

\* C13: llm_summary changes nothing in the store, and a second llm_summary
\* right after the first returns the same headline, risk_level, observations,
\* human_impact and recommended_next_steps.
C13_SummaryReadOnly ==
    /\ \A sid \in DOMAIN SESSIONS :
           LET r1 == llm_summary_result(SESSIONS, sid)
           IN  /\ r1.response.code = 200
               /\ r1.store = SESSIONS
               /\ llm_summary_result(r1.store, sid).response.body = r1.response.body
    /\ (response.op = "llm_summary" /\ response.code = 200) =>
           \E sid \in DOMAIN SESSIONS : response.body = fake_llm_summary(SESSIONS[sid])

\* a summary was just served for a session with more than three actions,
\* all of them still stored
C13_Witness ==
    /\ response.op = "llm_summary"
    /\ response.code = 200
    /\ \E sid \in DOMAIN SESSIONS :
           /\ Len(SESSIONS[sid].actions) >= 5
           /\ response.body.risk_level = risk_level(SESSIONS[sid].impact)

\* C14: observations is the action types of the last min(3, n) records of a
\* history of length n, oldest first; empty without actions and never longer
\* than three.
C14_LastThreeObservations ==
    \A sid \in DOMAIN SESSIONS :
        LET actions == SESSIONS[sid].actions
            n == Len(actions)
            obs == llm_summary_result(SESSIONS, sid).response.body.observations
        IN  /\ Len(obs) = (IF n < 3 THEN n ELSE 3)
            /\ \A j \in 1..Len(obs) : obs[j] = actions[n - Len(obs) + j].action_type
            /\ n = 0 => obs = <<>>

\* a summary of a five-action history reported the last three types, which
\* differ from the first three
C14_Witness ==
    /\ response.op = "llm_summary"
    /\ response.code = 200
    /\ response.body.observations = <<STR_ethical, STR_exploit, STR_ethical>>
    /\ \E sid \in DOMAIN SESSIONS :
           /\ Len(SESSIONS[sid].actions) = 5
           /\ SESSIONS[sid].actions[1].action_type = STR_exploit
           /\ SESSIONS[sid].actions[2].action_type = STR_exploit

\* the three tone-dependent fields of a summary
Tone(summary) ==
    <<summary.headline, summary.human_impact, summary.recommended_next_steps>>

CriticalTone ==
    <<"Critical Risk Assessment",
      "Recent decisions have prioritized speed or curiosity over safety.",
      <<"Review the 'Code of Ethics' immediately.",
        "Reset the simulation and attempt the 'Ethical' path to observe the difference.",
        "Document why you chose the exploit path in your reflection log.">>>>

ResponsibleTone ==
    <<"Responsible Operation Summary",
      "You have consistently prioritized stakeholder safety.",
      <<"Continue applying the 'Do No Harm' principle.",
        "Consider how these safeguards might scale to larger systems.",
        "Prepare your final reflection report.">>>>

\* C15: headline, human_impact and recommended_next_steps are the critical
\* variant iff trust < 70 and the responsible variant iff trust >= 70,
\* whatever the history, the other scores and the risk level are; the
\* summary's risk_level is risk_level of the current impact.
C15_ToneByTrust ==
    \A sid \in DOMAIN SESSIONS :
        LET session == SESSIONS[sid]
            summary == llm_summary_result(SESSIONS, sid).response.body
        IN  /\ (Tone(summary) = CriticalTone) <=> (session.impact.trust < 70)
            /\ (Tone(summary) = ResponsibleTone) <=> (session.impact.trust >= 70)
            /\ summary.risk_level = risk_level(session.impact)
            /\ Tone(summary) =
                   Tone(fake_llm_summary(
                       [impact |-> [baseline_impact EXCEPT !.trust = session.impact.trust],
                        actions |-> <<>>]))

\* a responsible summary was just served at trust exactly 70, after exploits
\* that raised the other scores
C15_Witness ==
    /\ response.op = "llm_summary"
    /\ response.code = 200
    /\ response.body.headline = "Responsible Operation Summary"
    /\ \E sid \in DOMAIN SESSIONS :
           /\ SESSIONS[sid].impact.trust = 70
           /\ SESSIONS[sid].impact.privacy_exposure >= 35
           /\ Len(SESSIONS[sid].actions) = 9

\* the impacts that exist before or after whole actions, in either order of
\* the two log_action requests in flight
SequentialImpacts ==
    LET a1 == Lower(threads["w1"].action_type)
        a2 == Lower(threads["w2"].action_type)
        start == ConcStore[ConcSession].impact
    IN  {start, ApplyDeltas(start, a1), ApplyDeltas(start, a2),
         ApplyDeltas(ApplyDeltas(start, a1), a2),
         ApplyDeltas(ApplyDeltas(start, a2), a1)}

\* the impacts after both actions, in either order
FinalImpacts ==
    LET a1 == Lower(threads["w1"].action_type)
        a2 == Lower(threads["w2"].action_type)
        start == ConcStore[ConcSession].impact
    IN  {ApplyDeltas(ApplyDeltas(start, a1), a2),
         ApplyDeltas(ApplyDeltas(start, a2), a1)}

\* C16: with requests on one session interleaving between statements, every
\* impact a concurrent llm_summary reads and every impact_after a concurrent
\* log_action records is the impact before or after a whole action in some
\* sequential order of the log_action calls, and no update is lost.
C16_NoTornImpact ==
    /\ DOMAIN threads # {} =>
           /\ threads[Reader].pc \in {"return", "done"} =>
                  /\ threads[Reader].seen \in {Scores(i) : i \in SequentialImpacts}
                  /\ threads[Reader].trust \in {i.trust : i \in SequentialImpacts}
           /\ \A w \in Writers :
                  threads[w].pc \in {"return", "done"} =>
                      threads[w].recorded \in SequentialImpacts
           /\ (\A w \in Writers : threads[w].pc \in {"return", "done"}) =>
                  SESSIONS[ConcSession].impact \in FinalImpacts

\* C17: once ethics_declared is true on a session it stays true through
\* every later request (declare_ethics accepted or refused, log_action,
\* llm_summary, reset), and after a reset the session is at status = "created"
\* yet its log_action is accepted: the gate is ethics_declared alone.
C17_GateStaysOpen ==
    LET declared == {s \in DOMAIN SESSIONS : SESSIONS[s].ethics_declared}
        Open(stores) == \A store \in stores : \A s \in declared : store[s].ethics_declared
    IN  \A sid \in DOMAIN SESSIONS :
            /\ Open({declare_ethics_result(SESSIONS, sid, p).store : p \in DeclareRequests})
            /\ Open({log_action_result(SESSIONS, sid, p).store : p \in ActionLogIn})
            /\ Open({llm_summary_result(SESSIONS, sid).store})
            /\ \A r \in {reset_result(SESSIONS, sid)} :
                   /\ Open({r.store})
                   /\ sid \in declared =>
                          /\ r.store[sid].status = "created"
                          /\ \A p \in ActionLogIn :
                                 /\ log_action_result(r.store, sid, p).response.code = 200
                                 /\ log_action_result(SESSIONS, sid, p).response.code = 200

\* an action was just logged on a session whose status is still "created"
\* from a reset
C17_Witness ==
    /\ response.op = "log_action"
    /\ response.code = 200
    /\ \E sid \in DOMAIN SESSIONS :
           /\ SESSIONS[sid].status = "created"
           /\ SESSIONS[sid].ethics_declared
           /\ SESSIONS[sid].actions # <<>>
           /\ SESSIONS[sid].actions[Len(SESSIONS[sid].actions)].impact_after
                  = response.body.impact

\* C18: the stored status is always "created" or "active" ("reset" appears
\* only in the answer of reset, which stores "created"); status = "active"
\* implies ethics_declared, and so does a non-empty action history.
C18_StatusValues ==
    /\ \A sid \in DOMAIN SESSIONS :
           /\ SESSIONS[sid].status \in {"created", "active"}
           /\ SESSIONS[sid].status = "active" => SESSIONS[sid].ethics_declared
           /\ SESSIONS[sid].actions # <<>> => SESSIONS[sid].ethics_declared
           /\ reset_result(SESSIONS, sid).response.body.status = "reset"
           /\ reset_result(SESSIONS, sid).store[sid].status = "created"
    /\ (response.op = "reset" /\ response.code = 200) => response.body.status = "reset"

\* a reset was just answered "reset" and every stored session is "created"
C18_Witness ==
    /\ response.op = "reset"
    /\ response.body = [ok |-> TRUE, status |-> "reset"]
    /\ DOMAIN SESSIONS # {}
    /\ \A sid \in DOMAIN SESSIONS : SESSIONS[sid].status = "created"

\* C19: regulatory_scrutiny and business_impact are 0 in every session and
\* in every recorded impact_after, and the "streak" entries of the deltas
\* table never add a field to an impact or change one.
C19_UnusedScoresStayZero ==
    \A sid \in DOMAIN SESSIONS :
        LET Untouched(impact) ==
                /\ DOMAIN impact = ScoreFields
                /\ impact.regulatory_scrutiny = 0
                /\ impact.business_impact = 0
        IN  /\ Untouched(SESSIONS[sid].impact)
            /\ \A i \in 1..Len(SESSIONS[sid].actions) :
                   Untouched(SESSIONS[sid].actions[i].impact_after)
            /\ \A p \in ActionLogIn :
                   SESSIONS[sid].ethics_declared =>
                       Untouched(log_action_result(SESSIONS, sid, p).response.body.impact)

\* both recognised decisions, each with a "streak" entry, were logged
C19_Witness ==
    \E sid \in DOMAIN SESSIONS :
        /\ Len(SESSIONS[sid].actions) >= 4
        /\ \E i \in 1..Len(SESSIONS[sid].actions) :
               SESSIONS[sid].actions[i].action_type = STR_ethical
        /\ \E i \in 1..Len(SESSIONS[sid].actions) :
               SESSIONS[sid].actions[i].action_type = STR_exploit
        /\ SESSIONS[sid].impact.community_harm > 0
        /\ SESSIONS[sid].impact.regulatory_scrutiny = 0

\* the summary of a session whose impact is the one under study
ProbeSummary == fake_llm_summary([impact |-> probe.result, actions |-> <<>>])

HighButResponsible ==
    /\ ProbeSummary.risk_level = "High"
    /\ ProbeSummary.headline = "Responsible Operation Summary"

\* C20 as claimed: after no sequence of "ethical"/"exploit" actions from
\* baseline does the summary show risk_level "High" together with the
\* responsible headline.
C20_ToneMatchesRisk ==
    probe.call = "ApplyDeltas" => ~HighButResponsible

\* C20 as amended: after fewer than 20 "ethical"/"exploit" actions from
\* baseline the summary never shows risk_level "High" together with the
\* responsible headline, and it never does at trust = 100.
C20_ToneMatchesRiskBelow20 ==
    probe.call = "ApplyDeltas" =>
        /\ probe.arg < 20 => ~HighButResponsible
        /\ probe.result.trust = 100 => ProbeSummary.risk_level # "High"

\* nineteen decisions were applied and the summary is responsible with a
\* risk level of "Medium": one "exploit" short of the first inconsistent one
C20_Witness ==
    /\ probe.call = "ApplyDeltas"
    /\ probe.arg = 19
    /\ probe.result.trust = 90
    /\ probe.result.privacy_exposure = 55
    /\ probe.result.community_harm = 55
    /\ ProbeSummary.headline = "Responsible Operation Summary"
    /\ ProbeSummary.risk_level = "Medium"

====
